---- MODULE Spec2Model ----
(***************************************************************************)
(* A model of src/main.py: CommandThread (the process supervisor: run and  *)
(* terminate_process) and the parts of ScrcpyController that start and     *)
(* stop supervisors (submit_command, test_devices, start_scrcpy,           *)
(* stop_all_processes).                                                    *)
(*                                                                         *)
(* A supervisor's callbacks are Qt signals.  emitted[t] is the sequence of *)
(* signal emissions made by supervisor t, in emission order: an            *)
(* output_signal emission is an event of kind "out", "err", "completed" or *)
(* "exc"; a finished_signal emission is an event of kind "fin".            *)
(*                                                                         *)
(* The child is the shell started by Popen(shell=True) and, when the shell *)
(* forks instead of exec'ing, the tool it runs.  A child is described by   *)
(* the lines it writes (each to stdout "o" or stderr "e"), by whether it   *)
(* then exits (and with which code) or keeps running, and by how its       *)
(* process tree reacts to SIGTERM.  A line is named by its position in the *)
(* child's write sequence.                                                 *)
(*                                                                         *)
(* The slots connected to the signals run on the UI thread, one at a time, *)
(* in emission order per supervisor: delivered[t] counts the emissions of  *)
(* supervisor t whose slot has run.  terminal is the log of                *)
(* terminal_output, one entry per QTextEdit.append.                        *)
(*                                                                         *)
(* Spec explores one supervisor with every kind of child, direct calls of  *)
(* terminate_process and failing reads.  SpecUI explores the controller    *)
(* with two supervisors, plain children and the slots.  SpecResolve        *)
(* explores the command resolution at the head of run() and SpecDevices    *)
(* the device dropdown filled by Test Devices.                             *)
(***************************************************************************)
EXTENDS Integers, Sequences, FiniteSets, TLC

\* Longest sequence of lines a child writes.
MaxWrites == 3
\* Number of lines an OS pipe holds before the writer blocks.
PipeCap == 2
\* Direct calls of terminate_process on one supervisor.
MaxTermCalls == 2
\* Longest text typed into command_input.
MaxText == 1
\* Longest command handed to a CommandThread, in symbols.
MaxCmdLen == 4

Threads == {1, 2}
Platforms == {"Windows", "Posix"}
ExitCodes == {0, 7}
\* Serial numbers adb may list as "device".
Devices == {"A", "B"}
\* exec: the shell exec's the tool, one process, dies on SIGTERM.
\* fork: the shell forks the tool and waits for it; SIGTERM to the shell
\*       leaves the tool running with the pipes open.
\* ignore: one process that ignores SIGTERM.
Modes == {"exec", "fork", "ignore"}

VARIABLES
    platform,           \* platform.system()
    running_processes,  \* ScrcpyController.running_processes
    start_btn,          \* start_btn.isEnabled()
    stop_btn,           \* stop_btn.isEnabled()
    pc,                 \* position of each CommandThread in run()
    cmd,                \* the command each CommandThread was built with
    process,            \* CommandThread.process is not None
    child,              \* the child Popen started
    ip,                 \* next write of the child
    alive,              \* processes of the child's tree that are alive
    rc,                 \* Popen.returncode once the shell has exited
    outPipe,            \* lines in the stdout pipe
    errPipe,            \* lines in the stderr pipe
    emitted,            \* signal emissions of each supervisor
    termReq,            \* QThread.terminate() was called on the thread
    termCalls,          \* calls of terminate_process so far
    termHit,            \* terminate_process found the shell still alive
    how,                \* how the shell ended: "none", "exit" or "kill"
    raised,             \* terminate_process raised to its caller
    swallowed,          \* an exception was raised in terminate_process's body
    staleKill,          \* a kill was issued at the pid of a shell that had exited
    uiWaited,           \* the calling thread waited in Popen.wait for a live child
    ioError,            \* a read of the child's pipes raised in run()
    spawns,             \* assignments of CommandThread.process by Popen
    scenario,           \* what the run explores: "supervisor", "controller", "resolve"
    delivered,          \* emissions of each supervisor whose slot has run
    terminal,           \* terminal_output: the entries appended so far
    rejected,           \* submit_command returned at "if not command"
    command,            \* CommandThread.command
    cmd_prefix,         \* CommandThread.cmd_prefix
    isdir,              \* os.path.isdir("scrcpy")
    full_command,       \* full_command of run() once resolved
    bare,               \* the command start_scrcpy / test_devices began with
    device_combo,       \* the items of the device dropdown
    parsedBy            \* the supervisor whose parse_devices last filled it

vars == <<platform, running_processes, start_btn, stop_btn, pc, cmd, process,
          child, ip, alive, rc, outPipe, errPipe, emitted, termReq, termCalls,
          termHit, how, raised, swallowed, staleKill, uiWaited, ioError, spawns,
          scenario, delivered, terminal, rejected,
          command, cmd_prefix, isdir, full_command, bare, device_combo, parsedBy>>

uiVars == <<running_processes, start_btn, stop_btn>>
runVars == <<pc, emitted>>
childVars == <<child, ip, alive, rc, outPipe, errPipe, how>>
termVars == <<termReq, termCalls, termHit, raised, swallowed, staleKill, uiWaited>>
histVars == <<ioError, spawns>>
comboVars == <<device_combo, parsedBy>>
slotVars == <<delivered, terminal, rejected, comboVars>>
resolveVars == <<command, cmd_prefix, isdir, full_command, bare>>

----------------------------------------------------------------------------
\* Helpers

RECURSIVE SeqsUpTo(_, _)
SeqsUpTo(S, n) ==
    IF n = 0 THEN {<<>>}
    ELSE LET shorter == SeqsUpTo(S, n - 1)
         IN  shorter \cup {Append(s, x) : s \in {q \in shorter : Len(q) = n - 1}, x \in S}

Range(s) == {s[i] : i \in 1..Len(s)}

\* The events of a sequence of emissions that are of kind k.
OfKind(s, k) ==
    LET F[i \in 0..Len(s)] ==
            IF i = 0 THEN <<>>
            ELSE IF s[i].kind = k THEN Append(F[i - 1], s[i]) ELSE F[i - 1]
    IN  F[Len(s)]

\* The positions up to n at which the write sequence w writes to stream k.
WritesTo(w, n, k) ==
    LET F[i \in 0..Len(w)] ==
            IF i = 0 THEN <<>>
            ELSE IF i <= n /\ w[i] = k THEN Append(F[i - 1], i) ELSE F[i - 1]
    IN  F[Len(w)]

IsPrefix(a, b) == Len(a) <= Len(b) /\ \A i \in 1..Len(a) : a[i] = b[i]

Ev(k, ls, c) == [kind |-> k, lines |-> ls, code |-> c]

NoCmd == [kind |-> "none", missing |-> FALSE, named |-> FALSE]
NoChild == [mode |-> "exec", writes |-> <<>>, exit |-> 0, forever |-> FALSE, device |-> "none"]

\* Exit status of a shell that cannot find the executable it was asked to run.
NotFoundCode == IF platform = "Windows" THEN 1 ELSE 127
\* Popen.returncode of a shell ended by taskkill /F or by SIGTERM.
KilledCode == IF platform = "Windows" THEN 1 ELSE -15

\* The children a command can turn out to be.  A command whose executable
\* does not exist is run by the shell, which writes one line to stderr and
\* exits with NotFoundCode.  With two supervisors the child is plain: one
\* process that writes a line to stdout and exits with 0.  An "adb devices"
\* whose output is looked at writes one line, which lists a device
\* ("<serial>\tdevice") or does not.
ChildrenOf(c) ==
    IF c.missing
    THEN {[mode |-> "exec", writes |-> <<"e">>, exit |-> NotFoundCode, forever |-> FALSE, device |-> "none"]}
    ELSE IF scenario = "devices"
    THEN {[mode |-> "exec", writes |-> <<"o">>, exit |-> 0, forever |-> FALSE, device |-> d] :
              d \in Devices \cup {"none"}}
    ELSE IF scenario = "controller"
    THEN {[mode |-> "exec", writes |-> <<"o">>, exit |-> 0, forever |-> FALSE, device |-> "none"]}
    ELSE {[mode |-> m, writes |-> w, exit |-> e, forever |-> FALSE, device |-> "none"] :
              m \in Modes, w \in SeqsUpTo({"o", "e"}, MaxWrites), e \in ExitCodes}
         \cup
         {[mode |-> m, writes |-> w, exit |-> 0, forever |-> TRUE, device |-> "none"] :
              m \in Modes, w \in SeqsUpTo({"o", "e"}, MaxWrites)}

Procs(m) == IF m = "fork" THEN {"shell", "tool"} ELSE {"shell"}
Writer(t) == IF child[t].mode = "fork" THEN "tool" ELSE "shell"

\* QThread.isRunning()
IsRunning(t) == pc[t] \notin {"unborn", "finished", "dead"}

\* CommandThread objects the run may still create.
MaxThreads == IF scenario \in {"controller", "devices"} THEN 2 ELSE 1
\* The next CommandThread to be built: objects are numbered in the order of
\* their construction.
FreeThreads ==
    {t \in Threads : /\ pc[t] = "unborn"
                     /\ t <= MaxThreads
                     /\ \A u \in Threads : u < t => pc[u] # "unborn"}

\* Whether the executable of a command is missing, and whether a command
\* line other than scrcpy's own contains "scrcpy" (pkill -f scrcpy matches
\* it).  With two supervisors every executable exists and only scrcpy's
\* command line names scrcpy.
Missing == IF scenario \in {"controller", "devices"} THEN {FALSE} ELSE BOOLEAN
Named == IF scenario \in {"controller", "devices"} THEN {FALSE} ELSE BOOLEAN

\* Texts the user may have typed into command_input: spaces and other
\* characters.
Texts ==
    IF scenario = "controller" THEN SeqsUpTo({" ", "c"}, MaxText) ELSE {<<"c">>}

\* str.strip()
RECURSIVE Strip(_)
Strip(text) ==
    IF text = <<>> THEN <<>>
    ELSE IF Head(text) = " " THEN Strip(Tail(text))
    ELSE IF text[Len(text)] = " " THEN Strip(SubSeq(text, 1, Len(text) - 1))
    ELSE text

\* What one write_to_terminal call appends: an output event of a supervisor
\* (the idx-th emission of supervisor src) or a message of the controller
\* itself (src = 0).
Frag(src, idx, what) == [src |-> src, idx |-> idx, what |-> what]
Msg(what) == Frag(0, 0, what)

\* An append that continues the last paragraph instead of starting one.
write_inline(log, frag) ==
    IF log = <<>> THEN <<<<frag>>>>
    ELSE [log EXCEPT ![Len(log)] = Append(@, frag)]

\* terminal_output.toPlainText(): the texts of the terminal log, in order.
Flat(log) ==
    LET F[i \in 0..Len(log)] == IF i = 0 THEN <<>> ELSE F[i - 1] \o log[i]
    IN  F[Len(log)]

\* write_to_terminal: terminal_output.append(text.rstrip()) adds the text
\* as a new paragraph of its own.
write_to_terminal(log, frag) == Append(log, <<frag>>)

----------------------------------------------------------------------------
\* The state after ScrcpyController.__init__, no CommandThread built yet.
InitProgram ==
    /\ platform \in Platforms
    /\ running_processes = <<>>
    /\ start_btn = TRUE
    /\ stop_btn = FALSE
    /\ pc = [t \in Threads |-> "unborn"]
    /\ cmd = [t \in Threads |-> NoCmd]
    /\ process = [t \in Threads |-> FALSE]
    /\ child = [t \in Threads |-> NoChild]
    /\ ip = [t \in Threads |-> 1]
    /\ alive = [t \in Threads |-> {}]
    /\ rc = [t \in Threads |-> 0]
    /\ outPipe = [t \in Threads |-> <<>>]
    /\ errPipe = [t \in Threads |-> <<>>]
    /\ emitted = [t \in Threads |-> <<>>]
    /\ termReq = [t \in Threads |-> FALSE]
    /\ termCalls = [t \in Threads |-> 0]
    /\ termHit = [t \in Threads |-> FALSE]
    /\ how = [t \in Threads |-> "none"]
    /\ raised = FALSE
    /\ swallowed = FALSE
    /\ staleKill = [t \in Threads |-> FALSE]
    /\ uiWaited = FALSE
    /\ ioError = [t \in Threads |-> FALSE]
    /\ spawns = [t \in Threads |-> 0]
    /\ delivered = [t \in Threads |-> 0]
    /\ terminal = <<>>
    /\ rejected = FALSE
    /\ device_combo = <<"No devices detected">>
    /\ parsedBy = 0

NoResolve ==
    /\ command = <<>>
    /\ cmd_prefix = <<>>
    /\ isdir = FALSE
    /\ full_command = <<>>
    /\ bare = <<>>

Init == scenario = "supervisor" /\ InitProgram /\ NoResolve

InitUI == scenario = "controller" /\ InitProgram /\ NoResolve

----------------------------------------------------------------------------
\* ScrcpyController: starting supervisors

\* CommandThread(command, prefix); thread.start(); running_processes.append
StartThread(t, c) ==
    /\ pc' = [pc EXCEPT ![t] = "popen"]
    /\ cmd' = [cmd EXCEPT ![t] = c]
    /\ running_processes' = Append(running_processes, t)

\* A submit_command without the "if not command: return" guard.
submit_unguarded(text) ==
    \E t \in FreeThreads, missing \in Missing, named \in Named :
        /\ StartThread(t, [kind |-> "cmd", missing |-> missing, named |-> named])
        /\ terminal' = write_to_terminal(terminal, Msg("prompt"))
        /\ UNCHANGED <<start_btn, stop_btn, delivered, rejected, comboVars>>
        /\ UNCHANGED <<platform, scenario, resolveVars, process, childVars, emitted,
                       termVars, histVars>>

\* submit_command with text in command_input.
submit_text(text) ==
    IF Strip(text) = <<>>
    THEN /\ rejected' = TRUE
         /\ UNCHANGED <<delivered, terminal, comboVars>>
         /\ UNCHANGED <<platform, scenario, resolveVars, uiVars, runVars, cmd, process,
                        childVars, termVars, histVars>>
    ELSE \E t \in FreeThreads, missing \in Missing, named \in Named :
             /\ StartThread(t, [kind |-> "cmd", missing |-> missing, named |-> named])
             /\ terminal' = write_to_terminal(terminal, Msg("prompt"))
             /\ UNCHANGED <<start_btn, stop_btn, delivered, rejected, comboVars>>
             /\ UNCHANGED <<platform, scenario, resolveVars, process, childVars, emitted,
                            termVars, histVars>>

submit_command == \E text \in Texts : submit_text(text)

test_devices ==
    \E t \in FreeThreads, missing \in Missing, named \in Named :
        /\ StartThread(t, [kind |-> "adb", missing |-> missing, named |-> named])
        /\ terminal' = write_to_terminal(terminal, Msg("testing"))
        /\ UNCHANGED <<start_btn, stop_btn, delivered, rejected, comboVars>>
        /\ UNCHANGED <<platform, scenario, resolveVars, process, childVars, emitted,
                       termVars, histVars>>

start_scrcpy ==
    \E t \in FreeThreads, missing \in Missing :
        /\ start_btn
        /\ StartThread(t, [kind |-> "scrcpy", missing |-> missing, named |-> TRUE])
        /\ terminal' = write_to_terminal(terminal, Msg("starting"))
        /\ start_btn' = FALSE
        /\ stop_btn' = TRUE
        /\ UNCHANGED <<delivered, rejected, comboVars>>
        /\ UNCHANGED <<platform, scenario, resolveVars, process, childVars, emitted,
                       termVars, histVars>>

----------------------------------------------------------------------------
\* The child process

\* The child writes its next line; a write to a full pipe blocks.
ChildWrite(t) ==
    /\ Writer(t) \in alive[t]
    /\ ip[t] <= Len(child[t].writes)
    /\ \/ /\ child[t].writes[ip[t]] = "o"
          /\ Len(outPipe[t]) < PipeCap
          /\ outPipe' = [outPipe EXCEPT ![t] = Append(@, ip[t])]
          /\ UNCHANGED errPipe
       \/ /\ child[t].writes[ip[t]] = "e"
          /\ Len(errPipe[t]) < PipeCap
          /\ errPipe' = [errPipe EXCEPT ![t] = Append(@, ip[t])]
          /\ UNCHANGED outPipe
    /\ ip' = [ip EXCEPT ![t] = @ + 1]
    /\ UNCHANGED <<child, alive, rc, how>>
    /\ UNCHANGED <<platform, scenario, resolveVars, slotVars, uiVars, runVars, cmd, process, termVars, histVars>>

\* The child has written everything and exits on its own.  A shell that
\* forked the tool exits with the tool's status.
ChildExit(t) ==
    /\ Writer(t) \in alive[t]
    /\ ip[t] > Len(child[t].writes)
    /\ ~child[t].forever
    /\ rc' = [rc EXCEPT ![t] = IF "shell" \in alive[t] THEN child[t].exit ELSE @]
    /\ how' = [how EXCEPT ![t] = IF "shell" \in alive[t] THEN "exit" ELSE @]
    /\ alive' = [alive EXCEPT ![t] = {}]
    /\ UNCHANGED <<child, ip, outPipe, errPipe>>
    /\ UNCHANGED <<platform, scenario, resolveVars, slotVars, uiVars, runVars, cmd, process, termVars, histVars>>

----------------------------------------------------------------------------
\* CommandThread.run

\* A run() that starts a child on every pass of its loop.
PopenAgain(t) ==
    /\ pc[t] \in {"popen", "readline"}
    /\ \E c \in ChildrenOf(cmd[t]) :
          /\ child' = [child EXCEPT ![t] = c]
          /\ alive' = [alive EXCEPT ![t] = Procs(c.mode)]
          /\ process' = [process EXCEPT ![t] = TRUE]
          /\ spawns' = [spawns EXCEPT ![t] = @ + 1]
          /\ pc' = [pc EXCEPT ![t] = "readline"]
    /\ UNCHANGED <<ip, rc, outPipe, errPipe, how, emitted, ioError>>
    /\ UNCHANGED <<platform, scenario, resolveVars, slotVars, uiVars, cmd, termVars>>

\* subprocess.Popen(full_command, shell=True, ...): the shell is started, or
\* Popen raises (the OS cannot create the process).
Popen(t) ==
    /\ pc[t] = "popen"
    /\ \/ \E c \in ChildrenOf(cmd[t]) :
             /\ child' = [child EXCEPT ![t] = c]
             /\ alive' = [alive EXCEPT ![t] = Procs(c.mode)]
             /\ process' = [process EXCEPT ![t] = TRUE]
             /\ spawns' = [spawns EXCEPT ![t] = @ + 1]
             /\ pc' = [pc EXCEPT ![t] = "readline"]
       \/ /\ pc' = [pc EXCEPT ![t] = "except"]
          /\ UNCHANGED <<child, alive, process, spawns>>
    /\ UNCHANGED <<ip, rc, outPipe, errPipe, how, emitted, ioError>>
    /\ UNCHANGED <<platform, scenario, resolveVars, slotVars, uiVars, cmd, termVars>>

\* A loop that leaves as soon as the child has exited, whatever it read.
BreakOnExit(empty, polled) == polled

\* if not line and self.process.poll() is not None: break
LoopBreak(empty, polled) == empty /\ polled

\* A loop that only starts reading once the child's tree has exited.
ReadLineAfterExit(t) ==
    /\ pc[t] = "readline"
    /\ alive[t] = {}
    /\ \/ /\ outPipe[t] # <<>>
          /\ outPipe' = [outPipe EXCEPT ![t] = Tail(@)]
          /\ emitted' = [emitted EXCEPT
                 ![t] = Append(@, Ev("out", <<Head(outPipe[t])>>, 0))]
          /\ UNCHANGED pc
       \/ /\ outPipe[t] = <<>>
          /\ pc' = [pc EXCEPT ![t] = "stderr"]
          /\ UNCHANGED <<outPipe, emitted>>
    /\ UNCHANGED <<child, ip, alive, rc, errPipe, how>>
    /\ UNCHANGED <<platform, scenario, resolveVars, slotVars, uiVars, cmd, process, termVars, histVars>>

\* One pass of the while loop: readline() returns the next line of the
\* stdout pipe, or "" at end of file (every process holding the write end
\* has exited); it blocks otherwise.
ReadLine(t) ==
    /\ pc[t] = "readline"
    /\ \/ /\ outPipe[t] # <<>>
          /\ outPipe' = [outPipe EXCEPT ![t] = Tail(@)]
          /\ IF LoopBreak(FALSE, "shell" \notin alive[t])
             THEN /\ pc' = [pc EXCEPT ![t] = "stderr"]
                  /\ UNCHANGED emitted
             ELSE /\ emitted' = [emitted EXCEPT
                         ![t] = Append(@, Ev("out", <<Head(outPipe[t])>>, 0))]
                  /\ UNCHANGED pc
       \/ /\ outPipe[t] = <<>>
          /\ alive[t] = {}
          /\ LoopBreak(TRUE, "shell" \notin alive[t])
          /\ pc' = [pc EXCEPT ![t] = "stderr"]
          /\ UNCHANGED <<outPipe, emitted>>
    /\ UNCHANGED <<child, ip, alive, rc, errPipe, how>>
    /\ UNCHANGED <<platform, scenario, resolveVars, slotVars, uiVars, cmd, process, termVars, histVars>>

\* One error event for each line of stderr.
StderrEventsPerLine(data) == [i \in 1..Len(data) |-> Ev("err", <<data[i]>>, 0)]

\* The output events made of what stderr.read() returned:
\* if stderr: output_signal.emit(f"ERROR: {stderr}\n")
StderrEvents(data) == IF data = <<>> THEN <<>> ELSE <<Ev("err", data, 0)>>

\* stderr = self.process.stderr.read(): everything written to stderr, once
\* the stderr pipe is at end of file.
ReadStderr(t) ==
    /\ pc[t] = "stderr"
    /\ alive[t] = {}
    /\ emitted' = [emitted EXCEPT ![t] = @ \o StderrEvents(errPipe[t])]
    /\ errPipe' = [errPipe EXCEPT ![t] = <<>>]
    /\ pc' = [pc EXCEPT ![t] = "wait"]
    /\ UNCHANGED <<child, ip, alive, rc, outPipe, how>>
    /\ UNCHANGED <<platform, scenario, resolveVars, slotVars, uiVars, cmd, process, termVars, histVars>>

\* The failure sentinel whatever the child returned.
ReturnCodeSentinel(t) == -1

\* Success whatever the child returned.
ReturnCodeZero(t) == 0

\* return_code = self.process.wait()
ReturnCode(t) == rc[t]

\* The completion signal emitted before the line that reports the code.
ReportAfterFinished(t) ==
    /\ pc[t] = "wait"
    /\ "shell" \notin alive[t]
    /\ emitted' = [emitted EXCEPT ![t] = @ \o <<Ev("fin", <<>>, rc[t]),
                                                  Ev("completed", <<>>, rc[t])>>]
    /\ pc' = [pc EXCEPT ![t] = "finished"]
    /\ UNCHANGED childVars
    /\ UNCHANGED <<platform, scenario, resolveVars, slotVars, uiVars, cmd, process, termVars, histVars>>

\* return_code = self.process.wait()
\* output_signal.emit(f"Command completed with return code: {return_code}\n")
WaitAndReport(t) ==
    /\ pc[t] = "wait"
    /\ "shell" \notin alive[t]
    /\ emitted' = [emitted EXCEPT ![t] = Append(@, Ev("completed", <<>>, ReturnCode(t)))]
    /\ pc' = [pc EXCEPT ![t] = "emitfin"]
    /\ UNCHANGED childVars
    /\ UNCHANGED <<platform, scenario, resolveVars, slotVars, uiVars, cmd, process, termVars, histVars>>

\* finished_signal.emit(return_code), the last statement of the try block
EmitFinished(t) ==
    /\ pc[t] = "emitfin"
    /\ emitted' = [emitted EXCEPT ![t] = Append(@, Ev("fin", <<>>, ReturnCode(t)))]
    /\ pc' = [pc EXCEPT ![t] = "finished"]
    /\ UNCHANGED childVars
    /\ UNCHANGED <<platform, scenario, resolveVars, slotVars, uiVars, cmd, process, termVars, histVars>>

\* A handler that reports the exception and ends without a completion.
ExceptReportOnly(t) ==
    /\ pc[t] = "except"
    /\ emitted' = [emitted EXCEPT ![t] = Append(@, Ev("exc", <<>>, 0))]
    /\ pc' = [pc EXCEPT ![t] = "finished"]
    /\ UNCHANGED childVars
    /\ UNCHANGED <<platform, scenario, resolveVars, slotVars, uiVars, cmd, process, termVars, histVars>>

\* except Exception as e: output_signal.emit(f"Exception: {str(e)}\n")
ExceptReport(t) ==
    /\ pc[t] = "except"
    /\ emitted' = [emitted EXCEPT ![t] = Append(@, Ev("exc", <<>>, 0))]
    /\ pc' = [pc EXCEPT ![t] = "exceptfin"]
    /\ UNCHANGED childVars
    /\ UNCHANGED <<platform, scenario, resolveVars, slotVars, uiVars, cmd, process, termVars, histVars>>

\* finished_signal.emit(-1)
ExceptFinished(t) ==
    /\ pc[t] = "exceptfin"
    /\ emitted' = [emitted EXCEPT ![t] = Append(@, Ev("fin", <<>>, -1))]
    /\ pc' = [pc EXCEPT ![t] = "finished"]
    /\ UNCHANGED childVars
    /\ UNCHANGED <<platform, scenario, resolveVars, slotVars, uiVars, cmd, process, termVars, histVars>>

\* A read of the child's pipes raises inside the try block (an I/O error,
\* or output that cannot be decoded as text): control goes to the handler.
ReadFault(t) ==
    /\ pc[t] \in {"readline", "stderr"}
    /\ pc' = [pc EXCEPT ![t] = "except"]
    /\ ioError' = [ioError EXCEPT ![t] = TRUE]
    /\ UNCHANGED <<childVars, emitted, spawns>>
    /\ UNCHANGED <<platform, scenario, resolveVars, slotVars, uiVars, cmd, process, termVars>>

RunStep(t) ==
    \/ Popen(t)
    \/ ReadLine(t)
    \/ ReadStderr(t)
    \/ WaitAndReport(t)
    \/ EmitFinished(t)
    \/ ExceptReport(t)
    \/ ExceptFinished(t)

----------------------------------------------------------------------------
\* CommandThread.terminate_process

\* The body issues a kill at the shell's pid: if self.process (a Popen object
\* is true whether or not its process has exited), then
\*   Windows: taskkill /F /T /PID, whatever the state of the process;
\*   otherwise: Popen.terminate(), which signals only a process that has
\*   not exited.
KillIssued(t, a) == process[t] /\ (platform = "Windows" \/ "shell" \in a)

\* The body waits for the child: self.process.wait(timeout=5), reached on
\* the non-Windows branch, blocks while the shell is alive.
WaitsForChild(t, a) == process[t] /\ platform # "Windows" /\ "shell" \in a

\* The child's tree (alive a, return code r) after the body of
\* terminate_process; hit: the shell was still alive; exc: the body raised
\* (wait(timeout=5) expired); stale: a kill was issued at the pid of a shell
\* that had exited; waited: the caller blocked in wait on a live child.
\*   Windows: taskkill /F /T /PID ends the shell and its descendants.
\*   otherwise: Popen.terminate() sends SIGTERM to the shell alone, and only
\*   while it has not exited; wait(timeout=5) expires if it is still alive.
KillOwned(t, a, r) ==
    LET tree ==
            IF ~process[t] \/ "shell" \notin a
            THEN [alive |-> a, rc |-> r, hit |-> FALSE, exc |-> FALSE]
            ELSE IF platform = "Windows"
            THEN [alive |-> {}, rc |-> KilledCode, hit |-> TRUE, exc |-> FALSE]
            ELSE IF child[t].mode = "ignore"
            THEN [alive |-> a, rc |-> r, hit |-> TRUE, exc |-> TRUE]
            ELSE [alive |-> a \ {"shell"}, rc |-> KilledCode, hit |-> TRUE, exc |-> FALSE]
    IN  [alive |-> tree.alive, rc |-> tree.rc, hit |-> tree.hit, exc |-> tree.exc,
         stale |-> KillIssued(t, a) /\ "shell" \notin a,
         waited |-> WaitsForChild(t, a)]

\* No try/except around the body: what it raises reaches the caller.
PropagatesAll(exc) == exc

\* try: ... except: pass -- nothing raised in the body reaches the caller.
Propagates(exc) == FALSE

\* A call of thread.terminate_process() on a constructed supervisor.
terminate_process(t) ==
    /\ pc[t] # "unborn"
    /\ termCalls[t] < MaxTermCalls
    /\ LET k == KillOwned(t, alive[t], rc[t])
       IN  /\ alive' = [alive EXCEPT ![t] = k.alive]
           /\ rc' = [rc EXCEPT ![t] = k.rc]
           /\ raised' = (raised \/ Propagates(k.exc))
           /\ swallowed' = (swallowed \/ (k.exc /\ ~Propagates(k.exc)))
           /\ staleKill' = [staleKill EXCEPT ![t] = @ \/ k.stale]
           /\ uiWaited' = (uiWaited \/ k.waited)
           /\ termHit' = [termHit EXCEPT ![t] = @ \/ k.hit]
           /\ how' = [how EXCEPT ![t] = IF "shell" \in alive[t] /\ "shell" \notin k.alive
                                        THEN "kill" ELSE @]
    /\ termCalls' = [termCalls EXCEPT ![t] = @ + 1]
    /\ UNCHANGED <<child, ip, outPipe, errPipe>>
    /\ UNCHANGED <<platform, scenario, resolveVars, slotVars, uiVars, runVars, cmd, process, termReq, histVars>>

----------------------------------------------------------------------------
\* ScrcpyController.stop_all_processes

\* pkill -f scrcpy (SIGTERM to every process whose command line matches) or
\* taskkill /F /IM scrcpy.exe, applied to the tree (a, r) of supervisor t.
KillByName(t, a, r) ==
    IF cmd[t].named /\ a # {} /\ (platform = "Windows" \/ child[t].mode # "ignore")
    THEN [alive |-> {}, rc |-> IF "shell" \in a THEN KilledCode ELSE r]
    ELSE [alive |-> a, rc |-> r]

\* for thread in running_processes: if thread.isRunning(): ...
StopTargets == {t \in Range(running_processes) : IsRunning(t)}

stop_all_processes ==
    /\ stop_btn
    /\ LET own == [t \in Threads |->
                      IF t \in StopTargets THEN KillOwned(t, alive[t], rc[t])
                      ELSE [alive |-> alive[t], rc |-> rc[t], hit |-> FALSE, exc |-> FALSE,
                            stale |-> FALSE, waited |-> FALSE]]
           all == [t \in Threads |-> KillByName(t, own[t].alive, own[t].rc)]
       IN  /\ alive' = [t \in Threads |-> all[t].alive]
           /\ rc' = [t \in Threads |-> all[t].rc]
           /\ raised' = (raised \/ \E t \in StopTargets : Propagates(own[t].exc))
           /\ swallowed' = (swallowed \/ \E t \in StopTargets :
                                            own[t].exc /\ ~Propagates(own[t].exc))
           /\ staleKill' = [t \in Threads |-> staleKill[t] \/ own[t].stale]
           /\ uiWaited' = (uiWaited \/ \E t \in StopTargets : own[t].waited)
           /\ termHit' = [t \in Threads |-> termHit[t] \/ own[t].hit]
           /\ how' = [t \in Threads |->
                         IF "shell" \in alive[t] /\ "shell" \notin all[t].alive
                         THEN "kill" ELSE how[t]]
    /\ termCalls' = [t \in Threads |-> IF t \in StopTargets THEN termCalls[t] + 1
                                       ELSE termCalls[t]]
    /\ termReq' = [t \in Threads |-> termReq[t] \/ t \in StopTargets]
    /\ running_processes' = <<>>
    /\ start_btn' = TRUE
    /\ stop_btn' = FALSE
    /\ terminal' = write_to_terminal(write_to_terminal(terminal, Msg("stopping")),
                                     Msg("stopped"))
    /\ UNCHANGED <<child, ip, outPipe, errPipe, delivered, rejected, comboVars>>
    /\ UNCHANGED <<platform, scenario, resolveVars, runVars, cmd, process, histVars>>

\* QThread.terminate(): the thread is ended at whatever point of run() it
\* has reached, at once or after some more steps.
ThreadKilled(t) ==
    /\ termReq[t]
    /\ IsRunning(t)
    /\ pc' = [pc EXCEPT ![t] = "dead"]
    /\ UNCHANGED <<platform, scenario, resolveVars, slotVars, uiVars, cmd, process, childVars, emitted, termVars, histVars>>

----------------------------------------------------------------------------
\* The slots, run on the UI thread for the next undelivered emission of
\* supervisor t.

Pending(t) == emitted[t][delivered[t] + 1]

SlotRuns(t, kinds) ==
    /\ delivered[t] < Len(emitted[t])
    /\ Pending(t).kind \in kinds
    /\ delivered' = [delivered EXCEPT ![t] = @ + 1]
    /\ UNCHANGED <<platform, scenario, resolveVars, running_processes, runVars, cmd,
                   process, childVars, termVars, histVars, rejected>>

\* output_signal.connect(self.write_to_terminal)
output_slot(t) ==
    /\ SlotRuns(t, {"out", "err", "completed", "exc"})
    /\ terminal' = write_to_terminal(terminal,
                                     Frag(t, delivered[t] + 1, Pending(t).kind))
    /\ UNCHANGED <<start_btn, stop_btn, comboVars>>

\* finished_signal.connect(lambda code: self.write_to_terminal(...))
finished_lambda(t) ==
    /\ cmd[t].kind = "cmd"
    /\ SlotRuns(t, {"fin"})
    /\ terminal' = write_to_terminal(terminal, Msg("cmd_finished"))
    /\ UNCHANGED <<start_btn, stop_btn, comboVars>>

\* The serial a text of the terminal lists as "device": a stdout line of a
\* supervisor whose child listed one.
DeviceOf(f) ==
    IF f.src # 0 /\ f.what = "out" THEN child[f.src].device ELSE "none"

\* for line in terminal_output.toPlainText().split('\n'):
\*     if '\tdevice' in line: devices.append(...)
DevicesIn(log) ==
    LET fl == Flat(log)
        F[i \in 0..Len(fl)] ==
            IF i = 0 THEN <<>>
            ELSE IF DeviceOf(fl[i]) # "none" THEN Append(F[i - 1], DeviceOf(fl[i]))
                 ELSE F[i - 1]
    IN  F[Len(fl)]

\* finished_signal.connect(self.parse_devices): when the return code is 0
\* the whole terminal text is parsed, the dropdown is refilled and one line
\* reporting the result is written.
parse_devices(t) ==
    /\ cmd[t].kind = "adb"
    /\ SlotRuns(t, {"fin"})
    /\ IF Pending(t).code = 0
       THEN /\ device_combo' = IF DevicesIn(terminal) # <<>> THEN DevicesIn(terminal)
                                ELSE <<"No devices detected">>
            /\ parsedBy' = t
            /\ terminal' = write_to_terminal(terminal, Msg("devices"))
       ELSE UNCHANGED <<terminal, comboVars>>
    /\ UNCHANGED <<start_btn, stop_btn>>

\* finished_signal.connect(self.on_scrcpy_finished)
on_scrcpy_finished(t) ==
    /\ cmd[t].kind = "scrcpy"
    /\ SlotRuns(t, {"fin"})
    /\ start_btn' = TRUE
    /\ stop_btn' = IF running_processes = <<>> THEN FALSE ELSE stop_btn
    /\ terminal' = write_to_terminal(terminal, Msg("scrcpy_finished"))
    /\ UNCHANGED comboVars

Deliver(t) ==
    \/ output_slot(t)
    \/ finished_lambda(t)
    \/ parse_devices(t)
    \/ on_scrcpy_finished(t)

----------------------------------------------------------------------------
ChildStep(t) == ChildWrite(t) \/ ChildExit(t)

Next ==
    \/ submit_command
    \/ test_devices
    \/ start_scrcpy
    \/ stop_all_processes
    \/ \E t \in Threads :
          \/ RunStep(t)
          \/ ReadFault(t)
          \/ ChildStep(t)
          \/ terminate_process(t)
          \/ ThreadKilled(t)

Spec == Init /\ [][Next]_vars

\* The controller with its slots: two supervisors, started and stopped
\* through the buttons only.
NextUI ==
    \/ submit_command
    \/ test_devices
    \/ start_scrcpy
    \/ stop_all_processes
    \/ \E t \in Threads :
          \/ RunStep(t)
          \/ ChildStep(t)
          \/ ThreadKilled(t)
          \/ Deliver(t)

SpecUI == InitUI /\ [][NextUI]_vars

\* Test Devices clicked up to twice, with devices attached or not.
InitDevices == scenario = "devices" /\ InitProgram /\ NoResolve

NextDevices ==
    \/ test_devices
    \/ \E t \in Threads :
          \/ RunStep(t)
          \/ ChildStep(t)
          \/ output_slot(t)
          \/ parse_devices(t)

SpecDevices == InitDevices /\ [][NextDevices]_vars

----------------------------------------------------------------------------
\* Command resolution at the head of CommandThread.run (lines 25-32)

\* A command is a sequence of symbols: the letters "adb", the letters
\* "scrcpy", a space, or some other character "x".
Symbols == {"adb", "scrcpy", " ", "x"}
Tools == {"adb", "scrcpy"}
Commands == SeqsUpTo(Symbols, MaxCmdLen)
\* self.cmd_prefix as check_command_prefix leaves it.
Prefixes == IF platform = "Windows" THEN {<<>>, <<".\\">>} ELSE {<<>>, <<"./">>}
Unbound == <<"unbound">>

\* build_scrcpy_command: "scrcpy" and the options chosen, joined by spaces.
ScrcpyCommands == {<<"scrcpy", " ", "x">>, <<"scrcpy", " ", "x", " ", "x">>}
\* "adb devices"
AdbDevices == <<"adb", " ", "x">>

\* A match anywhere in the command: re.search(r'(adb|scrcpy)', command)
MatchesAnywhere(c) == \E i \in 1..Len(c) : c[i] \in Tools

\* A match that asks for the whole first word: ^(adb|scrcpy)(\s|$)
MatchesWord(c) == c # <<>> /\ c[1] \in Tools /\ (Len(c) = 1 \/ c[2] = " ")

\* re.match(r'^(adb|scrcpy)', command)
Matches(c) == c # <<>> /\ c[1] \in Tools

Resolve(c, prefix, dir) ==
    IF Matches(c)
    THEN IF dir THEN <<"cd scrcpy && ">> \o prefix \o c ELSE prefix \o c
    ELSE c

InitResolve ==
    /\ scenario = "resolve"
    /\ InitProgram
    /\ command \in Commands
    /\ cmd_prefix \in Prefixes
    /\ isdir \in BOOLEAN
    /\ full_command = Unbound
    /\ bare = <<>>

ResolveCommand ==
    /\ full_command = Unbound
    /\ full_command' = Resolve(command, cmd_prefix, isdir)
    /\ UNCHANGED <<command, cmd_prefix, isdir, bare>>
    /\ UNCHANGED <<platform, scenario, slotVars, uiVars, runVars, cmd, process, childVars,
                   termVars, histVars>>

\* The command start_scrcpy and test_devices hand to CommandThread, built
\* from the bare command b (lines 548-551 and 468-471).
Handed(b) ==
    IF isdir THEN <<"cd scrcpy && ">> \o cmd_prefix \o b ELSE cmd_prefix \o b

\* A handler builds the next CommandThread with the command it made from b.
BuildThread(b) ==
    /\ bare = <<>>
    /\ bare' = b
    /\ command' = Handed(b)
    /\ full_command' = Unbound
    /\ UNCHANGED <<cmd_prefix, isdir>>
    /\ UNCHANGED <<platform, scenario, slotVars, uiVars, runVars, cmd, process, childVars,
                   termVars, histVars>>

\* start_scrcpy: CommandThread(full_command, self.cmd_prefix)
scrcpy_thread == \E b \in ScrcpyCommands : BuildThread(b)

\* test_devices: CommandThread(adb_cmd, self.cmd_prefix)
adb_thread == BuildThread(AdbDevices)

NextResolve == ResolveCommand \/ scrcpy_thread \/ adb_thread

SpecResolve == InitResolve /\ [][NextResolve]_vars

----------------------------------------------------------------------------
\* Properties

\* The finished_signal emissions of supervisor t.
FinEvents(t) == OfKind(emitted[t], "fin")
FinEmitted(t) == FinEvents(t) # <<>>

\* The lines delivered by supervisor t's "out" events, in emission order.
OutLines(t) ==
    LET o == OfKind(emitted[t], "out") IN [i \in 1..Len(o) |-> o[i].lines[1]]

\* What the child of t has written so far to stdout and to stderr.
WrittenOut(t) == WritesTo(child[t].writes, ip[t] - 1, "o")
WrittenErr(t) == WritesTo(child[t].writes, ip[t] - 1, "e")

\* Neither supervisor t nor its child can take another step, and no
\* requested end of the thread is pending.
Stuck(t) ==
    /\ pc[t] # "unborn"
    /\ ~ENABLED RunStep(t)
    /\ ~ENABLED ChildStep(t)
    /\ ~ENABLED ThreadKilled(t)

\* Supervisor t is blocked in readline() on a child that is still running.
BlockedReading(t) ==
    pc[t] = "readline" /\ "shell" \in alive[t] /\ ~ENABLED ReadLine(t)

\* C1: every supervisor started with a non-empty command eventually emits
\* finished_signal, exactly once: once a supervisor whose child would exit
\* by itself, and on which no termination was requested, can make no further
\* progress, it has emitted finished_signal exactly once.
C1_CompletionExactlyOnce ==
    \A t \in Threads :
        (/\ Stuck(t)
         /\ termCalls[t] = 0
         /\ ~termReq[t]
         /\ ~(process[t] /\ child[t].forever))
        => Len(FinEvents(t)) = 1

\* C2: finished_signal is the last emission of a supervisor: no output event
\* follows it, on the normal path and on the exception path.
C2_FinishedIsLast ==
    \A t \in Threads : \A i \in 1..Len(emitted[t]) :
        emitted[t][i].kind = "fin" => i = Len(emitted[t])

C2_Witness ==
    \E t \in Threads :
        /\ Len(emitted[t]) >= 3
        /\ emitted[t][Len(emitted[t])].kind = "fin"
        /\ emitted[t][1].kind = "out"

\* C3: a supervisor whose process was running when Stop All was invoked
\* (its only termination request) still emits finished_signal: once it can
\* make no further progress, it has.
C3_StopAllStillCompletes ==
    \A t \in Threads :
        (termReq[t] /\ termHit[t] /\ termCalls[t] = 1 /\ Stuck(t)) => FinEmitted(t)

\* C4: after terminate_process on a supervisor whose child would run
\* forever, finished_signal is emitted and no process of the child's tree
\* is left alive.
C4_TerminateLeavesNoOrphan ==
    \A t \in Threads :
        (/\ Stuck(t)
         /\ termHit[t]
         /\ ~termReq[t]
         /\ child[t].forever)
        => (FinEmitted(t) /\ alive[t] = {})

C6_StdoutInOrder ==
    \A t \in Threads :
        /\ \A i \in 1..Len(emitted[t]) :
               emitted[t][i].kind = "out" => Len(emitted[t][i].lines) = 1
        /\ IsPrefix(OutLines(t), WrittenOut(t))
        /\ (FinEmitted(t) /\ process[t] /\ ~ioError[t]) => OutLines(t) = WrittenOut(t)
        /\ (FinEmitted(t) /\ how[t] = "exit" /\ ~ioError[t])
               => OutLines(t) = WritesTo(child[t].writes, Len(child[t].writes), "o")

C6_Witness ==
    \E t \in Threads :
        /\ FinEmitted(t)
        /\ ~ioError[t]
        /\ how[t] = "exit"
        /\ child[t].writes = <<"o", "o", "o">>
        /\ OutLines(t) = <<1, 2, 3>>

\* C7: when the child exits on its own with code c, finished_signal carries
\* exactly c (no read of the pipes having raised).
C7_ExitCodeReported ==
    \A t \in Threads :
        (FinEmitted(t) /\ how[t] = "exit" /\ ~ioError[t])
        => FinEvents(t)[1].code = child[t].exit

C7_Witness ==
    \E t \in Threads :
        FinEmitted(t) /\ how[t] = "exit" /\ ~ioError[t] /\ FinEvents(t)[1].code = 7

C10_RepeatedTerminateIsSilent ==
    [][\A t \in Threads :
          (/\ termCalls'[t] > termCalls[t]
           /\ termCalls[t] >= 1 \/ how[t] = "exit")
          => (emitted' = emitted /\ ~raised')]_vars

C10_Witness ==
    \E t \in Threads :
        /\ termCalls[t] = 2
        /\ how[t] = "exit"
        /\ Len(FinEvents(t)) = 1

\* C11: terminate_process issues no kill or signal at the pid of a process
\* that has already exited, on either platform branch, and none when no
\* process was spawned.
C11_NoKillAfterExit ==
    \A t \in Threads : ~staleKill[t]

\* C12: no call made on the UI thread (terminate_process,
\* stop_all_processes) waits for a child process to exit.
C12_CallerNeverWaits == ~uiWaited

\* C16: an exception raised inside run() (Popen failing, or a read of the
\* pipes) does not leave run(): it is reported as one exception output
\* event, finished_signal(-1) follows as the last emission, and
\* finished_signal is emitted only once.
C16_ExceptionReportedOnce ==
    \A t \in Threads :
        (ioError[t] \/ (~process[t] /\ emitted[t] # <<>>))
        => /\ Len(FinEvents(t)) <= 1
           /\ Len(OfKind(emitted[t], "exc")) <= 1
           /\ OfKind(emitted[t], "completed") = <<>>
           /\ pc[t] \in {"except", "exceptfin", "finished", "dead"}
           /\ pc[t] = "finished"
                  => /\ Len(emitted[t]) >= 2
                     /\ emitted[t][Len(emitted[t]) - 1] = Ev("exc", <<>>, 0)
                     /\ emitted[t][Len(emitted[t])] = Ev("fin", <<>>, -1)

C16_Witness ==
    \E t \in Threads :
        /\ ioError[t]
        /\ pc[t] = "finished"
        /\ OutLines(t) # <<>>
        /\ FinEvents(t) = <<Ev("fin", <<>>, -1)>>

\* C17: terminate_process never raises to its caller, whatever happens to
\* the kill: the wait expiring, or the process being gone already.
C17_TerminateNeverRaises == ~raised

C17_Witness ==
    /\ swallowed
    /\ ~raised
    /\ \E t \in Threads : termCalls[t] >= 1 /\ child[t].mode = "ignore"

\* C18: a supervisor spawns at most one process over its lifetime:
\* CommandThread.process is assigned at most once, and every live process
\* of the supervisor belongs to that one spawn.
C18_AtMostOneSpawn ==
    \A t \in Threads :
        /\ spawns[t] <= 1
        /\ process[t] <=> spawns[t] = 1
        /\ alive[t] # {} => spawns[t] = 1

C18_Witness ==
    \E t \in Threads :
        /\ spawns[t] = 1
        /\ pc[t] = "finished"
        /\ termCalls[t] >= 1
        /\ OutLines(t) # <<>>

\* C19: the read loop cannot deadlock on pipe capacity: no state has the
\* child blocked writing to a full stderr pipe while the supervisor is
\* blocked reading an empty stdout pipe.
C19_NoPipeDeadlock ==
    \A t \in Threads :
        ~(/\ pc[t] = "readline"
          /\ outPipe[t] = <<>>
          /\ Writer(t) \in alive[t]
          /\ ip[t] <= Len(child[t].writes)
          /\ child[t].writes[ip[t]] = "e"
          /\ Len(errPipe[t]) >= PipeCap)

\* The text fragments of the terminal log that came from supervisor t, in
\* order.
FromSupervisor(t) ==
    LET fl == Flat(terminal)
        F[i \in 0..Len(fl)] ==
            IF i = 0 THEN <<>>
            ELSE IF fl[i].src = t THEN Append(F[i - 1], fl[i]) ELSE F[i - 1]
    IN  F[Len(fl)]

\* The output events among the first n emissions of supervisor t.
OutputEvents(t, n) ==
    LET F[i \in 0..Len(emitted[t])] ==
            IF i = 0 THEN <<>>
            ELSE IF i <= n /\ emitted[t][i].kind # "fin"
                 THEN Append(F[i - 1], Frag(t, i, emitted[t][i].kind))
                 ELSE F[i - 1]
    IN  F[Len(emitted[t])]

\* C13: with two supervisors, every entry of the terminal log is one whole
\* write (an output event of one supervisor, or a message of the
\* controller), never two texts merged, and the entries that came from one
\* supervisor are its delivered output events in the order it emitted them.
C13_WholeEventsInOrder ==
    /\ \A i \in 1..Len(terminal) : Len(terminal[i]) = 1
    /\ \A t \in Threads : FromSupervisor(t) = OutputEvents(t, delivered[t])

C13_Witness ==
    /\ \A t \in Threads : Len(FromSupervisor(t)) >= 2
    /\ \E i, j, k \in 1..Len(terminal) :
          /\ i < j /\ j < k
          /\ terminal[i][1].src = 1
          /\ terminal[j][1].src = 2
          /\ terminal[k][1].src = 1

\* C14: a submit_command whose text is empty or blank after strip() starts
\* nothing: no CommandThread is built or started, running_processes is
\* unchanged, nothing is written or emitted and no slot runs.
C14_BlankStartsNothing ==
    [][(\E text \in Texts : Strip(text) = <<>> /\ submit_text(text))
       => UNCHANGED <<pc, cmd, process, spawns, running_processes, emitted,
                      delivered, terminal, start_btn, stop_btn>>]_vars

C14_Witness ==
    /\ rejected
    /\ \A t \in Threads : pc[t] = "unborn" /\ ~process[t] /\ emitted[t] = <<>>
    /\ running_processes = <<>>
    /\ terminal = <<>>

\* The first word of a command: its symbols up to the first space.
FirstWord(c) ==
    LET F[i \in 0..Len(c)] ==
            IF i = 0 THEN <<>>
            ELSE IF Len(F[i - 1]) = i - 1 /\ c[i] # " " THEN Append(F[i - 1], c[i])
                 ELSE F[i - 1]
    IN  F[Len(c)]

\* The command invokes one of the two tools: its first word is the tool's
\* name.
IsInvocation(c) == FirstWord(c) \in {<<"adb">>, <<"scrcpy">>}
\* The command begins with the letters of a tool's name.
BeginsWithTool(c) == c # <<>> /\ c[1] \in Tools

Prepended(c) ==
    (IF isdir THEN <<"cd scrcpy && ">> ELSE <<>>) \o cmd_prefix \o c

\* C15 as stated: the prefix (and the directory change when the scrcpy
\* directory exists) is prepended exactly when the command invokes adb or
\* scrcpy; a command whose first word only begins with those letters is
\* run verbatim.
C15_PrefixedIffInvocation ==
    full_command # Unbound
    => full_command = IF IsInvocation(command) THEN Prepended(command) ELSE command

\* C15, amended: the prefix (and the directory change when the scrcpy
\* directory exists) is prepended exactly when the command string begins
\* with the letters adb or scrcpy, which includes every invocation of the
\* two tools and also a first word that only begins with those letters;
\* every other command is run verbatim.
C15_PrefixedIffBeginsWithTool ==
    full_command # Unbound
    => /\ full_command = IF BeginsWithTool(command) THEN Prepended(command)
                         ELSE command
       /\ IsInvocation(command) => BeginsWithTool(command)

C15_Witness ==
    /\ full_command # Unbound
    /\ BeginsWithTool(command)
    /\ ~IsInvocation(command)
    /\ full_command = Prepended(command)
    /\ full_command # command

\* C20: once a session started by start_scrcpy has finished on its own, its
\* on_scrcpy_finished has run and no supervisor is running, the Stop All
\* button is disabled.
C20_StopDisabledAfterOwnFinish ==
    \A t \in Threads :
        (/\ cmd[t].kind = "scrcpy"
         /\ how[t] = "exit"
         /\ FinEmitted(t)
         /\ delivered[t] = Len(emitted[t])
         /\ \A u \in Threads : ~IsRunning(u))
        => ~stop_btn

\* The number of times symbol x occurs in command c.
Count(c, x) == Cardinality({i \in 1..Len(c) : c[i] = x})

\* C21: the command start_scrcpy and test_devices hand to CommandThread is
\* executed as what run() would resolve from the bare command, with one
\* executable prefix and one directory change when the scrcpy directory
\* exists and none otherwise, for every prefix and either state of the
\* directory.
C21_NeverPrefixedTwice ==
    (bare # <<>> /\ full_command # Unbound)
    => /\ full_command = Resolve(bare, cmd_prefix, isdir)
       /\ full_command = (IF isdir THEN <<"cd scrcpy && ">> ELSE <<>>) \o cmd_prefix \o bare
       /\ Count(full_command, "cd scrcpy && ") = IF isdir THEN 1 ELSE 0
       /\ cmd_prefix # <<>> => Count(full_command, cmd_prefix[1]) = 1
       /\ Count(full_command, bare[1]) = 1

C21_Witness ==
    /\ bare # <<>>
    /\ full_command # Unbound
    /\ Matches(command)
    /\ ~isdir

\* C22: the Start button is enabled only when no process of a session
\* launched by start_scrcpy is alive.
C22_StartOnlyWhenNoSession ==
    start_btn => \A t \in Threads : cmd[t].kind = "scrcpy" => alive[t] = {}

\* C23: once the parse_devices of a Test Devices run that returned 0 has
\* filled the dropdown, the dropdown holds exactly the serials that run's
\* adb listed as "device", each once (the placeholder when it listed none),
\* whatever was written to the terminal before.
C23_DropdownIsThisRun ==
    \A t \in Threads :
        parsedBy = t
        => device_combo = IF child[t].device = "none" THEN <<"No devices detected">>
                          ELSE <<child[t].device>>

====
